---- MODULE Spec2Model ----
(***************************************************************************)
(* Model of vaultlocker/shell.py: the key-lifecycle protocol of the        *)
(* encrypt and decrypt sub-commands.                                       *)
(*                                                                         *)
(* The world is the Vault KV store (store), the LUKS header of the block   *)
(* device (luks) and the device-mapper table (mapped).  An invocation of   *)
(* the CLI is a process p; its position in the code is pc[p].  Every call  *)
(* that leaves the process (approle login, KV write/read/delete, the       *)
(* cryptsetup/udevadm subprocesses, the tenacity sleep) is one step.       *)
(*                                                                         *)
(* Time is counted in the units of tenacity.wait_fixed(1): an attempt      *)
(* takes no time, the sleep between two attempts takes one unit.           *)
(***************************************************************************)
EXTENDS Integers, Sequences, FiniteSets, TLC

\* ------------------------------------------------------------------ bounds
MaxRetry == 2
MaxInvocations == 2
NumKeys == 2
NumIds == 2

Procs == {1, 2}
Keys == {"k" \o ToString(i) : i \in 1..NumKeys}
Ids == {"u" \o ToString(i) : i \in 1..NumIds}
NoKey == "nokey"
NoUuid == "nouuid"
Never == MaxRetry + 2
\* --retry values: the default -1 (shell.py:293), 0 and the positive budgets
RetryValues == -1..MaxRetry
\* config.get('vault', 'kv_version'): '1' (default, shell.py:273), '2', or
\* any other string
KvVersions == {"1", "2", "3"}

\* exception classes
NotReadyErrors == {"VaultDown", "VaultNotInitialized"}
\* hvac.exceptions.VaultError and its subclasses, as raised by a store call
VaultErrors == {"VaultError"} \cup NotReadyErrors
\* an exception that is not an hvac VaultError (transport failure)
OtherException == "Exception"
StoreFaults == VaultErrors \cup {OtherException}

VARIABLES
  store,       \* Vault KV: path -> dmcrypt_key, NoKey when the path has no data
  luks,        \* LUKS header of the block device: <<uuid, key>> or <<>>
  mapped,      \* identifiers whose /dev/mapper/crypt-<id> exists
  ninv,        \* invocations started so far
  active,      \* processes that run invocations
  args,        \* per process: parsed CLI arguments and configuration
  readyAt,     \* per process: time (since the first attempt) the backend is ready
  pc,          \* per process: position in the code
  attempt,     \* per process: tenacity attempt number
  elapsed,     \* per process: time since the first attempt
  key,         \* per process: key of dmcrypt.generate_key() in this attempt
  block_uuid,  \* per process: identifier used by this attempt
  ops,         \* per process: calls made by the current attempt, in order
  outcome,     \* per process: result of the last finished attempt
  nformat,     \* per process: luks_format calls of the invocation
  entryMapped, \* per process: _device_exists(uuid) held when the invocation began
  provisioned  \* per identifier: the key a successful encrypt gave to luks_format,
               \* NoKey once the path was written or deleted again

vars == <<store, luks, mapped, ninv, active, args, readyAt, pc, attempt,
          elapsed, key, block_uuid, ops, outcome, nformat, entryMapped,
          provisioned>>

world == <<store, luks, mapped>>

NoArgs == [cmd |-> "none", uuid |-> NoUuid, retry |-> -1, kv_version |-> "1"]

ArgSets ==
  [cmd : {"encrypt"}, uuid : Ids \cup {NoUuid}, retry : RetryValues,
   kv_version : KvVersions]
  \cup
  [cmd : {"decrypt"}, uuid : Ids, retry : RetryValues,
   kv_version : KvVersions]

Op(name, res) == [op |-> name, res |-> res]

\* an exception: its class and the arguments it was constructed with
Exc(cls, arg) == [cls |-> cls, arg |-> arg]
NoOutcome == Exc("none", <<>>)
Returned == Exc("ok", <<>>)

\* args.block_device[0]
BlockDevice == "/dev/sdb"

\* ------------------------------------------------------------ pure helpers

\* _get_vault_path: the path is the identifier itself
_get_vault_path(device_uuid) == device_uuid

\* an existence check that finds nothing
_device_exists_never(uuid, m) == FALSE

\* an existence check with the result inverted
_device_exists_inverted(uuid, m) == uuid \notin m

\* _device_exists: os.path.exists('/dev/mapper/crypt-<uuid>')
_device_exists(uuid, m) == uuid \in m

\* identifiers nothing refers to yet
FreshIds(st, hdr, m) ==
  {i \in Ids : st[i] = NoKey /\ i \notin m /\ (hdr = <<>> \/ hdr[1] # i)}

\* line 82: str(uuid.uuid4()) if not args.uuid else args.uuid; a uuid4 is
\* an identifier that was never used before
ChosenUuids(a, st, hdr, m) ==
  IF a.uuid = NoUuid THEN FreshIds(st, hdr, m) ELSE {a.uuid}

\* the comparison of line 136 left out
KeyMatchesAlways(k, stored) == TRUE

\* the comparison of line 136 with its sense inverted
KeyMatchesInverted(k, stored) == k # stored

\* the comparison of line 136 taking an absent record for the mismatch
KeyMatchesUnlessAbsent(k, stored) == stored # NoKey

\* line 136: key == stored_data['dmcrypt_key']
KeyMatches(k, stored) == k = stored

\* tenacity.retry_if_exception(p) retries when p(exception) is true.  The
\* code passes the exception classes VaultNotInitialized and VaultDown as
\* p, so p(exception) constructs an exception instance, which is truthy
\* whatever the failure was.
RetryPredicate(e) == TRUE

\* the stop condition with stop_after_attempt(2) in the else branch
StopAfterTwo(retry, att, secs) == IF retry > 0 THEN secs >= retry ELSE att >= 2

\* the stop condition counting the coming sleep into the delay
StopEarly(retry, att, secs) == IF retry > 0 THEN secs + 1 >= retry ELSE att >= 1

\* stop_after_delay(args.retry) if args.retry > 0 else stop_after_attempt(1)
Stop(retry, att, secs) == IF retry > 0 THEN secs >= retry ELSE att >= 1

\* ------------------------------------------------------------------- Init
Init ==
  /\ store = [i \in Ids |-> NoKey]
  /\ luks = <<>>
  /\ mapped = {}
  /\ ninv = 0
  /\ active = {1}
  /\ args = [p \in Procs |-> NoArgs]
  /\ readyAt = [p \in Procs |-> 0]
  /\ pc = [p \in Procs |-> "idle"]
  /\ attempt = [p \in Procs |-> 0]
  /\ elapsed = [p \in Procs |-> 0]
  /\ key = [p \in Procs |-> NoKey]
  /\ block_uuid = [p \in Procs |-> NoUuid]
  /\ ops = [p \in Procs |-> <<>>]
  /\ outcome = [p \in Procs |-> NoOutcome]
  /\ nformat = [p \in Procs |-> 0]
  /\ entryMapped = [p \in Procs |-> FALSE]
  /\ provisioned = [i \in Ids |-> NoKey]

\* --------------------------------------------------------- retry supervisor

\* tenacity after an attempt that returned res: "ok" ends the invocation; a
\* failure is retried (after the sleep) when the retry predicate accepts it
\* and the stop condition does not hold, and re-raised otherwise
AfterAttempt(p, res) ==
  IF res.cls # "ok" /\ RetryPredicate(res.cls)
       /\ ~Stop(args[p].retry, attempt[p], elapsed[p])
  THEN "wait" ELSE "done"

\* the attempt of p ends with res, having made the call o last
EndAttempt(p, o, res) ==
  /\ ops' = [ops EXCEPT ![p] = Append(@, o)]
  /\ outcome' = [outcome EXCEPT ![p] = res]
  /\ pc' = [pc EXCEPT ![p] = AfterAttempt(p, res)]

\* the attempt of p goes on at position next, having made the call o
Continue(p, o, next) ==
  /\ ops' = [ops EXCEPT ![p] = Append(@, o)]
  /\ pc' = [pc EXCEPT ![p] = next]
  /\ UNCHANGED outcome

\* the wrapping that drops the path from the wrapped error
WrapWithoutPath(fault, wrapped, path) ==
  IF fault \in VaultErrors THEN Exc(wrapped, <<>>) ELSE Exc(fault, <<>>)

\* the wrapping with a handler for hvac's generic error only
WrapGenericOnly(fault, wrapped, path) ==
  IF fault = "VaultError" THEN Exc(wrapped, <<path>>) ELSE Exc(fault, <<>>)

\* what a store call that raised fault becomes when the handler wraps
\* hvac.exceptions.VaultError into wrapped(vault_path) and lets anything
\* else through
Wrap(fault, wrapped, path) ==
  IF fault \in VaultErrors THEN Exc(wrapped, <<path>>) ELSE Exc(fault, <<>>)

\* main: parse the arguments, read the configuration, call args.func
Invoke(p) ==
  /\ p \in active
  /\ pc[p] = "idle"
  /\ ninv < MaxInvocations
  /\ \E a \in ArgSets, r \in (0..MaxRetry) \cup {Never} :
       /\ args' = [args EXCEPT ![p] = a]
       /\ readyAt' = [readyAt EXCEPT ![p] = r]
       /\ entryMapped' = [entryMapped EXCEPT
                            ![p] = a.cmd = "decrypt" /\ a.uuid \in mapped]
  /\ ninv' = ninv + 1
  /\ pc' = [pc EXCEPT ![p] = "client"]
  /\ attempt' = [attempt EXCEPT ![p] = 1]
  /\ elapsed' = [elapsed EXCEPT ![p] = 0]
  /\ key' = [key EXCEPT ![p] = NoKey]
  /\ block_uuid' = [block_uuid EXCEPT ![p] = NoUuid]
  /\ ops' = [ops EXCEPT ![p] = <<>>]
  /\ outcome' = [outcome EXCEPT ![p] = NoOutcome]
  /\ nformat' = [nformat EXCEPT ![p] = 0]
  /\ UNCHANGED <<world, active, provisioned>>

\* _do_it, first statement: client = _vault_client(config).  The approle
\* login fails with VaultDown / VaultNotInitialized while the backend is
\* sealed or uninitialized; on a ready backend it succeeds, is rejected
\* (another VaultError) or fails outside hvac (role_id unbound, transport).
VaultClient(p) ==
  /\ pc[p] = "client"
  /\ \E r \in (IF elapsed[p] < readyAt[p] THEN NotReadyErrors
               ELSE {"ok", "VaultError", OtherException}) :
       /\ ops' = [ops EXCEPT ![p] = Append(@, Op("login", r))]
       /\ IF r = "ok"
          THEN /\ pc' = [pc EXCEPT ![p] = IF args[p].cmd = "encrypt"
                                          THEN "write" ELSE "exists"]
               /\ UNCHANGED outcome
          ELSE /\ outcome' = [outcome EXCEPT ![p] = Exc(r, <<>>)]
               /\ pc' = [pc EXCEPT ![p] = AfterAttempt(p, Exc(r, <<>>))]
  /\ UNCHANGED <<world, ninv, active, provisioned, args, readyAt, attempt, elapsed, key,
                 block_uuid, nformat, entryMapped>>

\* tenacity.wait_fixed(1): sleep one unit, then call _do_it again, with
\* fresh locals
Wait(p) ==
  /\ pc[p] = "wait"
  /\ pc' = [pc EXCEPT ![p] = "client"]
  /\ attempt' = [attempt EXCEPT ![p] = @ + 1]
  /\ elapsed' = [elapsed EXCEPT ![p] = @ + 1]
  /\ key' = [key EXCEPT ![p] = NoKey]
  /\ block_uuid' = [block_uuid EXCEPT ![p] = NoUuid]
  /\ ops' = [ops EXCEPT ![p] = <<>>]
  /\ UNCHANGED <<world, ninv, active, provisioned, args, readyAt, outcome, nformat,
                 entryMapped>>

\* main lines 329-337: the invocation is over (return, or SystemExit with
\* '<prog>: <msg>'); the process and its locals are gone
Exit(p) ==
  /\ pc[p] = "done"
  /\ pc' = [pc EXCEPT ![p] = "idle"]
  /\ args' = [args EXCEPT ![p] = NoArgs]
  /\ readyAt' = [readyAt EXCEPT ![p] = 0]
  /\ attempt' = [attempt EXCEPT ![p] = 0]
  /\ elapsed' = [elapsed EXCEPT ![p] = 0]
  /\ key' = [key EXCEPT ![p] = NoKey]
  /\ block_uuid' = [block_uuid EXCEPT ![p] = NoUuid]
  /\ ops' = [ops EXCEPT ![p] = <<>>]
  /\ outcome' = [outcome EXCEPT ![p] = NoOutcome]
  /\ nformat' = [nformat EXCEPT ![p] = 0]
  /\ entryMapped' = [entryMapped EXCEPT ![p] = FALSE]
  /\ UNCHANGED <<world, ninv, active, provisioned>>

\* ------------------------------------------------------- block device layer
\* (vaultlocker.dmcrypt: cryptsetup / udevadm subprocesses; a non-zero exit
\* raises subprocess.CalledProcessError)

\* cryptsetup luksFormat can succeed only on a device that is not in use
CanFormat(m) == m = {}

\* cryptsetup open can succeed only if the header carries this uuid and
\* key and no mapping of that name exists yet
CanOpen(k, uuid, hdr, m) == hdr = <<uuid, k>> /\ uuid \notin m

\* ------------------------------------------------------------ secret store
\* (hvac KV v1 / v2 on the configured mount point)

\* create_or_update_secret(vault_path, secret=dict(dmcrypt_key=key))
create_or_update_secret(st, path, k) == [st EXCEPT ![path] = k]

\* a delete that removes nothing
delete_secret_noop(st, path) == st

\* v1 delete_secret / v2 delete_metadata_and_all_versions
delete_secret(st, path) == [st EXCEPT ![path] = NoKey]

\* ------------------------------------------------------ provisioning path

\* line 171: LUKSFailure(block_device, luks_error.output); the output is
\* that of the step that failed, the last call of the attempt so far
LUKSFailure(trace) == Exc("LUKSFailure", <<BlockDevice, trace[Len(trace)].op>>)

\* the read of the recovery path with 'except VaultError': other
\* exceptions escape
ReadFailureVaultOnly(fault, uuid) ==
  IF fault \in VaultErrors THEN Exc("ValueError", <<uuid>>) ELSE Exc(fault, <<>>)

\* lines 205-210: any exception of the read leaves stored_data None, and
\* the attempt raises ValueError('Unable to locate key for <uuid>')
ReadFailure(fault, uuid) == Exc("ValueError", <<uuid>>)

\* history of the round trip: an identifier stays provisioned with the key
\* its device was formatted with for as long as its record keeps its value
StillProvisioned(prov, st, st2) ==
  [i \in Ids |-> IF st2[i] # st[i] THEN NoKey ELSE prov[i]]

\* _encrypt_block_device lines 80-112: generate the key, choose the
\* identifier, write the record; VaultError becomes VaultWriteError
StoreWrite(p) ==
  /\ pc[p] = "write"
  /\ \E k \in Keys, u \in ChosenUuids(args[p], store, luks, mapped) :
       /\ key' = [key EXCEPT ![p] = k]
       /\ block_uuid' = [block_uuid EXCEPT ![p] = u]
       /\ IF args[p].kv_version \in {"1", "2"}
          THEN \E r \in {"ok"} \cup StoreFaults :
                 IF r = "ok"
                 THEN /\ store' = create_or_update_secret(store, _get_vault_path(u), k)
                      /\ Continue(p, Op("write", "ok"), "read")
                 ELSE /\ EndAttempt(p, Op("write", r),
                                    Wrap(r, "VaultWriteError", _get_vault_path(u)))
                      /\ UNCHANGED store
          ELSE \* neither branch is taken: nothing is written
               /\ pc' = [pc EXCEPT ![p] = "read"]
               /\ UNCHANGED <<store, ops, outcome>>
  /\ provisioned' = StillProvisioned(provisioned, store, store')
  /\ UNCHANGED <<luks, mapped, ninv, active, args, readyAt, attempt, elapsed,
                 nformat, entryMapped>>

\* _encrypt_block_device lines 114-137: read the record back (VaultError
\* becomes VaultReadError; a path without data is hvac's InvalidPath) and
\* compare it with the generated key
ReadAndVerify(p) ==
  /\ pc[p] = "read"
  /\ LET path == _get_vault_path(block_uuid[p]) IN
     IF args[p].kv_version \in {"1", "2"}
     THEN \E r \in (IF store[path] = NoKey THEN {"VaultError"} ELSE {"ok"})
                     \cup StoreFaults :
            IF r = "ok"
            THEN IF KeyMatches(key[p], store[path])
                 THEN Continue(p, Op("read", store[path]), "format")
                 ELSE EndAttempt(p, Op("read", store[path]),
                                 Exc("VaultKeyMismatch", <<path>>))
            ELSE EndAttempt(p, Op("read", r), Wrap(r, "VaultReadError", path))
     ELSE \* stored_data was never bound: line 136 raises UnboundLocalError
          /\ outcome' = [outcome EXCEPT ![p] = Exc("UnboundLocalError", <<>>)]
          /\ pc' = [pc EXCEPT ![p] =
                      AfterAttempt(p, Exc("UnboundLocalError", <<>>))]
          /\ UNCHANGED ops
  /\ UNCHANGED <<world, ninv, active, provisioned, args, readyAt, attempt, elapsed, key,
                 block_uuid, nformat, entryMapped>>

\* the try block with the open moved before the settle
AfterStepOpenEarly(step) ==
  CASE step = "luks_format" -> "rescan"
    [] step = "udevadm_rescan" -> "open"
    [] step = "udevadm_settle" -> "open"

\* lines 143-148: the statement that follows a device step that returned
AfterStep(step) ==
  CASE step = "luks_format" -> "rescan"
    [] step = "udevadm_rescan" -> "settle"
    [] step = "udevadm_settle" -> "open"

\* line 143: dmcrypt.luks_format(key, block_device, block_uuid)
LuksFormat(p) ==
  /\ pc[p] = "format"
  /\ nformat' = [nformat EXCEPT ![p] = @ + 1]
  /\ \/ /\ CanFormat(mapped)
        /\ luks' = <<block_uuid[p], key[p]>>
        /\ Continue(p, Op("luks_format", "ok"), AfterStep("luks_format"))
     \/ /\ UNCHANGED luks
        /\ Continue(p, Op("luks_format", "CalledProcessError"), "delete")
  /\ UNCHANGED <<store, mapped, ninv, active, provisioned, args, readyAt, attempt, elapsed,
                 key, block_uuid, entryMapped>>

\* line 146: dmcrypt.udevadm_rescan(block_device)
UdevadmRescan(p) ==
  /\ pc[p] = "rescan"
  /\ \/ Continue(p, Op("udevadm_rescan", "ok"), AfterStep("udevadm_rescan"))
     \/ Continue(p, Op("udevadm_rescan", "CalledProcessError"), "delete")
  /\ UNCHANGED <<world, ninv, active, provisioned, args, readyAt, attempt, elapsed, key,
                 block_uuid, nformat, entryMapped>>

\* line 147: dmcrypt.udevadm_settle(block_uuid)
UdevadmSettle(p) ==
  /\ pc[p] = "settle"
  /\ \/ Continue(p, Op("udevadm_settle", "ok"), AfterStep("udevadm_settle"))
     \/ Continue(p, Op("udevadm_settle", "CalledProcessError"), "delete")
  /\ UNCHANGED <<world, ninv, active, provisioned, args, readyAt, attempt, elapsed, key,
                 block_uuid, nformat, entryMapped>>

\* line 148: dmcrypt.luks_open(key, block_uuid); success ends the attempt
LuksOpen(p) ==
  /\ pc[p] = "open"
  /\ \/ /\ CanOpen(key[p], block_uuid[p], luks, mapped)
        /\ mapped' = mapped \cup {block_uuid[p]}
        /\ provisioned' = [provisioned EXCEPT ![block_uuid[p]] = key[p]]
        /\ EndAttempt(p, Op("luks_open", "ok"), Returned)
     \/ /\ UNCHANGED <<mapped, provisioned>>
        /\ Continue(p, Op("luks_open", "CalledProcessError"), "delete")
  /\ UNCHANGED <<store, luks, ninv, active, args, readyAt, attempt, elapsed,
                 key, block_uuid, nformat, entryMapped>>

\* lines 149-171: a device step raised CalledProcessError: delete the
\* record, then raise LUKSFailure; a VaultError of the delete is raised as
\* VaultDeleteError instead
RollbackDelete(p) ==
  /\ pc[p] = "delete"
  /\ LET path == _get_vault_path(block_uuid[p]) IN
     IF args[p].kv_version \in {"1", "2"}
     THEN \E r \in {"ok"} \cup StoreFaults :
            IF r = "ok"
            THEN /\ store' = delete_secret(store, path)
                 /\ EndAttempt(p, Op("delete", "ok"), LUKSFailure(ops[p]))
            ELSE /\ UNCHANGED store
                 /\ EndAttempt(p, Op("delete", r),
                               Wrap(r, "VaultDeleteError", path))
     ELSE /\ UNCHANGED <<store, ops>>
          /\ outcome' = [outcome EXCEPT ![p] = LUKSFailure(ops[p])]
          /\ pc' = [pc EXCEPT ![p] = AfterAttempt(p, LUKSFailure(ops[p]))]
  /\ provisioned' = StillProvisioned(provisioned, store, store')
  /\ UNCHANGED <<luks, mapped, ninv, active, args, readyAt, attempt, elapsed,
                 key, block_uuid, nformat, entryMapped>>

\* ----------------------------------------------------------- recovery path

\* _decrypt_block_device lines 185-189: return at once when the mapped
\* device exists
DeviceExistsCheck(p) ==
  /\ pc[p] = "exists"
  /\ block_uuid' = [block_uuid EXCEPT ![p] = args[p].uuid]
  /\ IF _device_exists(args[p].uuid, mapped)
     THEN EndAttempt(p, Op("exists", "yes"), Returned)
     ELSE Continue(p, Op("exists", "no"), "fetch")
  /\ UNCHANGED <<world, ninv, active, provisioned, args, readyAt, attempt, elapsed, key,
                 nformat, entryMapped>>

\* lines 190-211: read the record; every exception of the read is caught
\* and leaves stored_data None, which raises ValueError
FetchKey(p) ==
  /\ pc[p] = "fetch"
  /\ LET path == _get_vault_path(block_uuid[p]) IN
     IF args[p].kv_version \in {"1", "2"}
     THEN \E r \in (IF store[path] = NoKey THEN {"VaultError"} ELSE {"ok"})
                     \cup StoreFaults :
            IF r = "ok"
            THEN /\ key' = [key EXCEPT ![p] = store[path]]
                 /\ Continue(p, Op("read", store[path]), "mapopen")
            ELSE /\ UNCHANGED key
                 /\ EndAttempt(p, Op("read", r),
                               ReadFailure(r, block_uuid[p]))
     ELSE /\ UNCHANGED <<key, ops>>
          /\ outcome' = [outcome EXCEPT ![p] = Exc("ValueError", <<block_uuid[p]>>)]
          /\ pc' = [pc EXCEPT ![p] =
                      AfterAttempt(p, Exc("ValueError", <<block_uuid[p]>>))]
  /\ UNCHANGED <<world, ninv, active, provisioned, args, readyAt, attempt, elapsed,
                 block_uuid, nformat, entryMapped>>

\* line 213: dmcrypt.luks_open(key, block_uuid); its CalledProcessError
\* is not caught
OpenMapped(p) ==
  /\ pc[p] = "mapopen"
  /\ \/ /\ CanOpen(key[p], block_uuid[p], luks, mapped)
        /\ mapped' = mapped \cup {block_uuid[p]}
        /\ EndAttempt(p, Op("luks_open", "ok"), Returned)
     \/ /\ UNCHANGED mapped
        /\ EndAttempt(p, Op("luks_open", "CalledProcessError"),
                      Exc("CalledProcessError", <<"luks_open">>))
  /\ UNCHANGED <<store, luks, ninv, active, provisioned, args, readyAt, attempt, elapsed,
                 key, block_uuid, nformat, entryMapped>>

\* ------------------------------------------------------------- environment

\* another actor replaces the record after the commit and before the
\* verifying read
OtherActorWrite ==
  /\ \E p \in active, k \in Keys :
       /\ pc[p] = "read"
       /\ args[p].kv_version \in {"1", "2"}
       /\ k # key[p]
       /\ store[_get_vault_path(block_uuid[p])] = key[p]
       /\ store' = [store EXCEPT ![_get_vault_path(block_uuid[p])] = k]
  /\ provisioned' = StillProvisioned(provisioned, store, store')
  /\ UNCHANGED <<luks, mapped, ninv, active, args, readyAt, pc, attempt,
                 elapsed, key, block_uuid, ops, outcome, nformat, entryMapped>>

\* the host reboots between two invocations: the mappings are gone
Reboot ==
  /\ \A p \in Procs : pc[p] = "idle"
  /\ mapped # {}
  /\ mapped' = {}
  /\ UNCHANGED <<store, luks, ninv, active, provisioned, args, readyAt, pc, attempt,
                 elapsed, key, block_uuid, ops, outcome, nformat, entryMapped>>

\* -------------------------------------------------------------------- Spec
Next ==
  \/ \E p \in Procs : Invoke(p)
  \/ \E p \in Procs : VaultClient(p)
  \/ \E p \in Procs : Wait(p)
  \/ \E p \in Procs : Exit(p)
  \/ \E p \in Procs : StoreWrite(p)
  \/ \E p \in Procs : ReadAndVerify(p)
  \/ \E p \in Procs : LuksFormat(p)
  \/ \E p \in Procs : UdevadmRescan(p)
  \/ \E p \in Procs : UdevadmSettle(p)
  \/ \E p \in Procs : LuksOpen(p)
  \/ \E p \in Procs : RollbackDelete(p)
  \/ \E p \in Procs : DeviceExistsCheck(p)
  \/ \E p \in Procs : FetchKey(p)
  \/ \E p \in Procs : OpenMapped(p)
  \/ OtherActorWrite
  \/ Reboot

Spec == Init /\ [][Next]_vars

\* ------------------------------------------------------------------ claims

DeviceOps == {"luks_format", "udevadm_rescan", "udevadm_settle", "luks_open"}

\* the attempt of p is over: tenacity sleeps before the next one, or the
\* invocation has ended
AttemptOver(p) == pc[p] \in {"wait", "done"}

Encrypting(p) == p \in active /\ args[p].cmd = "encrypt"
Decrypting(p) == p \in active /\ args[p].cmd = "decrypt"

\* positions of the calls named in names within the attempt trace of p
Calls(p, names) == {i \in DOMAIN ops[p] : ops[p][i].op \in names}

\* C1: in every provisioning attempt, a device operation (luks_format,
\* udevadm_rescan, udevadm_settle, luks_open) is made only after the store
\* write of that attempt succeeded and, after it, the read at the derived
\* path returned the key generated in that attempt; with a schema version
\* other than '1' and '2' no device operation is made at all.
C1_NoDeviceOpBeforeVerifiedCommit ==
  \A p \in Procs : Encrypting(p) =>
    \A i \in Calls(p, DeviceOps) :
      /\ args[p].kv_version \in {"1", "2"}
      /\ \E w \in 1..(i-1), r \in 1..(i-1) :
           /\ w < r
           /\ ops[p][w] = Op("write", "ok")
           /\ ops[p][r] = Op("read", key[p])
           /\ key[p] \in Keys

\* C1 witness: a provisioning attempt committed, verified, formatted and
\* opened the device
C1_Witness ==
  \E p \in Procs :
    /\ Encrypting(p)
    /\ pc[p] = "done"
    /\ Calls(p, {"luks_format"}) # {}
    /\ Calls(p, {"luks_open"}) # {}
    /\ outcome[p] = Returned
    /\ store[_get_vault_path(block_uuid[p])] = key[p]

\* C2: when the key read back differs from the generated key, the
\* provisioning attempt ends with VaultKeyMismatch(vault_path) and has made
\* no delete, no format and no open.
C2_MismatchIsFatalWithoutRollback ==
  \A p \in Procs : Encrypting(p) =>
    \A i \in Calls(p, {"read"}) :
      (ops[p][i].res \in Keys /\ ops[p][i].res # key[p]) =>
        /\ AttemptOver(p)
        /\ outcome[p] = Exc("VaultKeyMismatch", <<_get_vault_path(block_uuid[p])>>)
        /\ Calls(p, DeviceOps \cup {"delete"}) = {}
        /\ i = Len(ops[p])

\* C2 witness: K1 committed, the record replaced by K2, the attempt over
C2_Witness ==
  \E p \in Procs :
    /\ Encrypting(p)
    /\ pc[p] = "done"
    /\ outcome[p].cls = "VaultKeyMismatch"
    /\ store[_get_vault_path(block_uuid[p])] \in Keys \ {key[p]}

\* a device step of the attempt of p failed
ApplyFailed(p) ==
  \E i \in Calls(p, DeviceOps) : ops[p][i].res = "CalledProcessError"

\* C3 as claimed: whenever a provisioning attempt has failed at apply time,
\* the path has no record once the attempt is over, whatever the rollback
\* delete call did.
C3_Original_AbsentAfterApplyFailure ==
  \A p \in Procs :
    (Encrypting(p) /\ AttemptOver(p) /\ ApplyFailed(p)) =>
      store[_get_vault_path(block_uuid[p])] = NoKey

\* C3 amended: whenever a provisioning attempt has failed at apply time and
\* its rollback delete call succeeded, the attempt ends with LUKSFailure
\* and the path has no record; when the delete call failed the attempt ends
\* with that failure (VaultDeleteError for a VaultError) instead and the
\* record written by the attempt is still in the store.
C3_AbsentAfterSuccessfulRollback ==
  \A p \in Procs :
    (Encrypting(p) /\ AttemptOver(p) /\ ApplyFailed(p)) =>
      LET path == _get_vault_path(block_uuid[p])
          last == ops[p][Len(ops[p])]
      IN /\ last.op = "delete"
         /\ last.res = "ok" =>
              /\ outcome[p].cls = "LUKSFailure"
              /\ store[path] = NoKey
         /\ last.res # "ok" =>
              /\ outcome[p].cls \in {"VaultDeleteError", OtherException}
              /\ store[path] = key[p]

\* C3 witness: the device open failed, the delete succeeded, the
\* invocation is over and the path is empty
C3_Witness ==
  \E p \in Procs :
    /\ Encrypting(p)
    /\ pc[p] = "done"
    /\ \E i \in Calls(p, {"luks_open"}) : ops[p][i].res = "CalledProcessError"
    /\ ops[p][Len(ops[p])] = Op("delete", "ok")
    /\ store[_get_vault_path(block_uuid[p])] = NoKey

Running(p) == p \in active /\ args[p].cmd # "none"

\* C4 as claimed: with a positive retry budget another attempt is started
\* only after a backend-not-ready failure (VaultDown, VaultNotInitialized);
\* any other failure ends the invocation at once.
C4_RetryOnlyWhenBackendNotReady ==
  \A p \in Procs :
    (Running(p) /\ pc[p] = "wait") => outcome[p].cls \in NotReadyErrors

\* C5: with a retry budget of zero or less the supervisor makes exactly one
\* attempt: it never sleeps and never logs in a second time, and a failed
\* attempt ends the invocation with that attempt's failure, backend-not-ready
\* included.
C5_SingleAttemptWithoutBudget ==
  \A p \in Procs :
    (Running(p) /\ args[p].retry <= 0) =>
      /\ attempt[p] = 1
      /\ pc[p] # "wait"
      /\ Cardinality(Calls(p, {"login"})) <= 1
      /\ outcome[p] # NoOutcome => pc[p] = "done"
      /\ (Calls(p, {"login"}) # {} /\ ops[p][1].res # "ok") =>
           /\ pc[p] = "done"
           /\ outcome[p] = Exc(ops[p][1].res, <<>>)
           /\ Len(ops[p]) = 1

\* C5 witness: the default budget, a sealed backend, one attempt, VaultDown
\* propagated
C5_Witness ==
  \E p \in Procs :
    /\ Running(p)
    /\ args[p].retry = -1
    /\ pc[p] = "done"
    /\ attempt[p] = 1
    /\ outcome[p] = Exc("VaultDown", <<>>)

\* C6: with a retry budget N > 0 and one time unit between attempts, at most
\* N + 1 attempts are made, and when the invocation is over:
\* if the backend became ready at a time t < N, an attempt was made once it
\* was ready and the invocation did not end with a backend-not-ready
\* failure; if the backend never became ready, the invocation ended with a
\* backend-not-ready failure, after more than one attempt and with at
\* least N time units elapsed since the first attempt.
C6_RetryUntilBudgetElapsed ==
  \A p \in Procs :
    (Running(p) /\ args[p].retry > 0) =>
      /\ attempt[p] = elapsed[p] + 1
      /\ attempt[p] <= args[p].retry + 1
      /\ (pc[p] = "done" /\ readyAt[p] < args[p].retry) =>
           /\ elapsed[p] >= readyAt[p]
           /\ outcome[p].cls \notin NotReadyErrors
      /\ (pc[p] = "done" /\ readyAt[p] = Never) =>
           /\ outcome[p].cls \in NotReadyErrors
           /\ attempt[p] > 1
           /\ elapsed[p] >= args[p].retry

\* C6 witness: the backend became ready after the first attempt and within
\* the budget, and the invocation succeeded on a later attempt
C6_Witness ==
  \E p \in Procs :
    /\ Running(p)
    /\ pc[p] = "done"
    /\ readyAt[p] > 0
    /\ readyAt[p] < args[p].retry
    /\ attempt[p] = readyAt[p] + 1
    /\ Calls(p, {"luks_open"}) # {}
    /\ outcome[p] = Returned

\* C7: during a decrypt invocation that found the mapped device of its
\* identifier present when it began, no step changes the store, the LUKS
\* header or the device-mapper table, and no attempt makes a store read or
\* a device open.
C7_DecryptOfMappedDeviceIsNoOp ==
  [][\A p \in Procs :
       entryMapped[p] =>
         /\ world' = world
         /\ \A i \in DOMAIN ops'[p] : ops'[p][i].op \notin {"read", "luks_open"}
    ]_vars

\* C7 witness: a decrypt of an identifier that was already mapped came to
\* its end
C7_Witness ==
  \E p \in Procs :
    /\ Decrypting(p)
    /\ entryMapped[p]
    /\ pc[p] = "done"
    /\ Calls(p, {"exists"}) # {}

\* C8 as claimed: a decrypt invocation that found the mapped device present
\* when it began ends without error, whatever the store does and whatever
\* the retry budget: none of its attempts fails.
C8_Original_MappedDecryptNeverFails ==
  \A p \in Procs :
    (Decrypting(p) /\ entryMapped[p] /\ AttemptOver(p)) =>
      outcome[p] = Returned

\* C8 amended: in a decrypt invocation that found the mapped device present
\* when it began, an attempt whose client construction (approle login)
\* succeeded makes no further call after the existence check and ends the
\* invocation without error, whatever the retry budget; an attempt whose
\* login failed ends with the login's failure.
C8_MappedDecryptSkipsAfterLogin ==
  \A p \in Procs :
    (Decrypting(p) /\ entryMapped[p] /\ AttemptOver(p)) =>
      IF ops[p][1] = Op("login", "ok")
      THEN /\ ops[p] = <<Op("login", "ok"), Op("exists", "yes")>>
           /\ outcome[p] = Returned
           /\ pc[p] = "done"
      ELSE /\ Len(ops[p]) = 1
           /\ outcome[p] = Exc(ops[p][1].res, <<>>)

\* C8 witness: with a positive budget and a backend that was sealed at
\* first, the decrypt of a mapped device ended without error
C8_Witness ==
  \E p \in Procs :
    /\ Decrypting(p)
    /\ entryMapped[p]
    /\ pc[p] = "done"
    /\ attempt[p] > 1
    /\ outcome[p] = Returned

\* C9: a decrypt attempt that found the device not mapped and whose read
\* found no record or failed, for whatever reason, ends with
\* ValueError('Unable to locate key for <identifier>'), having made no
\* device open and no store write (or delete); the read is its last call.
C9_MissingKeyIsKeyNotFound ==
  \A p \in Procs : Decrypting(p) =>
    /\ Calls(p, {"write", "delete", "luks_format"}) = {}
    /\ \A i \in Calls(p, {"read"}) :
         ops[p][i].res \notin Keys =>
           /\ AttemptOver(p)
           /\ outcome[p] = Exc("ValueError", <<args[p].uuid>>)
           /\ i = Len(ops[p])
           /\ Calls(p, {"luks_open"}) = {}
    /\ (AttemptOver(p) /\ Calls(p, {"exists"}) # {}
          /\ ~entryMapped[p] /\ Calls(p, {"read"}) = {}) =>
         /\ outcome[p] = Exc("ValueError", <<args[p].uuid>>)
         /\ Calls(p, {"luks_open"}) = {}

\* C9 witness: decrypt against a store without a record for the identifier
C9_Witness ==
  \E p \in Procs :
    /\ Decrypting(p)
    /\ pc[p] = "done"
    /\ store[_get_vault_path(args[p].uuid)] = NoKey
    /\ Calls(p, {"read"}) # {}
    /\ outcome[p].cls = "ValueError"

\* C10: when the store write of a provisioning attempt fails, the attempt
\* ends there: the write is its last call (no read, no device operation,
\* no delete), the LUKS header and the mappings are as they were, and the
\* error is VaultWriteError(vault_path) for a VaultError and the raised
\* exception itself otherwise.
C10_WriteFailureAbortsAttempt ==
  \A p \in Procs : Encrypting(p) =>
    \A i \in Calls(p, {"write"}) :
      ops[p][i].res # "ok" =>
        /\ AttemptOver(p)
        /\ ops[p] = <<Op("login", "ok"), ops[p][i]>>
        /\ ops[p][i].res \in VaultErrors =>
             outcome[p] = Exc("VaultWriteError", <<_get_vault_path(block_uuid[p])>>)
        /\ ops[p][i].res \notin VaultErrors =>
             outcome[p] = Exc(ops[p][i].res, <<>>)

\* C10 witness: the write was refused because the backend was sealed
C10_Witness ==
  \E p \in Procs :
    /\ Encrypting(p)
    /\ pc[p] = "done"
    /\ ops[p] = <<Op("login", "ok"), Op("write", "VaultDown")>>
    /\ outcome[p].cls = "VaultWriteError"

\* the values an exception was constructed with
Carried(e) == {e.arg[i] : i \in DOMAIN e.arg}

\* the rollback delete of the attempt of p was called and failed
RollbackFailed(p) ==
  \E i \in Calls(p, {"delete"}) : ops[p][i].res # "ok"

\* C11: when a device step failed and the rollback delete failed too, the
\* error that ends the provisioning attempt reports both: the delete
\* failure with the path, and the device failure with the device path and
\* the output of the failed step.
C11_BothFailuresSurfaced ==
  \A p \in Procs :
    (Encrypting(p) /\ AttemptOver(p) /\ ApplyFailed(p) /\ RollbackFailed(p)) =>
      /\ _get_vault_path(block_uuid[p]) \in Carried(outcome[p])
      /\ BlockDevice \in Carried(outcome[p])
      /\ \E i \in Calls(p, DeviceOps) :
           /\ ops[p][i].res = "CalledProcessError"
           /\ ops[p][i].op \in Carried(outcome[p])

\* the step is one of the program, taken by p (the environment's steps
\* leave every pc alone)
StepOf(p) == pc'[p] # pc[p]

\* C12: no step of an encrypt or decrypt invocation replaces the key
\* material of a record that is in the store, and a record is removed
\* only by the rollback delete of a provisioning attempt at its own path.
C12_CommittedRecordNeverReplaced ==
  [][\A p \in Procs : StepOf(p) =>
       \A i \in Ids :
         store[i] \in Keys =>
           \/ store'[i] = store[i]
           \/ /\ store'[i] = NoKey
              /\ pc[p] = "delete"
              /\ i = _get_vault_path(block_uuid[p])
    ]_vars

\* what the invocation of p has written to standard output: shell.py has
\* no print and no write to sys.stdout, the subprocess output is captured,
\* and logging.basicConfig (line 327) sends the log to standard error
Stdout(p) == {}

\* C13: every encrypt invocation that ended in success has written the
\* identifier it used to standard output.
C13_IdentifierPrintedOnSuccess ==
  \A p \in Procs :
    (Encrypting(p) /\ pc[p] = "done" /\ outcome[p] = Returned) =>
      block_uuid[p] \in Stdout(p)

\* an exit status that ignores the exception
ExitStatusSwallowed(o) == 0

\* main lines 329-337: an exception of args.func becomes
\* SystemExit('<prog>: <msg>'), which exits with status 1; a return exits
\* with status 0
ExitStatus(o) == IF o.cls = "ok" THEN 0 ELSE 1

\* the text of the SystemExit: parser.prog and the exception
ExitText(o) == IF o.cls = "ok" THEN <<>> ELSE <<"vaultlocker", o.cls>> \o o.arg

AllOk(p, names) ==
  \A n \in names : \E i \in Calls(p, {n}) : ops[p][i].res = "ok"

\* the end state of a provisioning that fully succeeded
EncryptSucceeded(p) ==
  /\ key[p] \in Keys
  /\ store[_get_vault_path(block_uuid[p])] = key[p]
  /\ AllOk(p, DeviceOps)
  /\ luks = <<block_uuid[p], key[p]>>
  /\ block_uuid[p] \in mapped

\* the end state of a recovery that fully succeeded
DecryptSucceeded(p) ==
  \/ entryMapped[p]
  \/ /\ key[p] \in Keys
     /\ \E i \in Calls(p, {"read"}) : ops[p][i].res = key[p]
     /\ AllOk(p, {"luks_open"})
     /\ args[p].uuid \in mapped

\* C14: an invocation that is over exits with status zero only in a fully
\* successful end state (encrypt: the generated key is in the store at the
\* identifier's path and format, rescan, settle and open all succeeded;
\* decrypt: the mapped device existed at entry or luks_open succeeded with
\* the fetched key); every other invocation exits with a non-zero status
\* and the text '<prog>: <message>' of its last failure.
C14_SuccessOnlyWhenFullySucceeded ==
  \A p \in Procs :
    (Running(p) /\ pc[p] = "done") =>
      LET full == IF args[p].cmd = "encrypt" THEN EncryptSucceeded(p)
                  ELSE DecryptSucceeded(p) /\ outcome[p] = Returned
      IN /\ ExitStatus(outcome[p]) = 0 => full
         /\ ExitStatus(outcome[p]) # 0 =>
              /\ outcome[p].cls \notin {"ok", "none"}
              /\ ExitText(outcome[p])[1] = "vaultlocker"
              /\ ExitText(outcome[p])[2] = outcome[p].cls

\* C14 witness: a decrypt that fetched the key and opened the device
\* exited with status zero
C14_Witness ==
  \E p \in Procs :
    /\ Decrypting(p)
    /\ pc[p] = "done"
    /\ ~entryMapped[p]
    /\ AllOk(p, {"luks_open"})
    /\ ExitStatus(outcome[p]) = 0

\* config.get('vault', 'backend')
MountPoint == "backend"

\* the log with the written secret in the message of a failed write
LogOfWithSecret(cmd, o, path, uuid, k) ==
  IF o.op = "write" /\ o.res \in VaultErrors
  THEN {<<"error", "Vault write to path", path, k, o.res>>}
  ELSE {}

\* the logger calls of shell.py that go with the call o of an attempt
\* whose locals are vault_path = path, block_uuid = uuid and key = k:
\* lines 109-111 (write error), 126-133 (read error of encrypt), 150-155
\* (device failure), 187-188 and 220 (existence check), 206-207 (any read
\* error of decrypt)
LogOf(cmd, o, path, uuid, k) ==
  CASE o.op = "write" /\ o.res \in VaultErrors ->
         {<<"error", "Vault write to path", path, o.res>>}
    [] cmd = "encrypt" /\ o.op = "read" /\ o.res \in VaultErrors ->
         {<<"error", "Vault access to path", MountPoint, path, o.res>>}
    [] cmd = "decrypt" /\ o.op = "read" /\ o.res \in StoreFaults ->
         {<<"info", "Couldn't read the secret at key", MountPoint, path>>}
    [] cmd = "encrypt" /\ o.res = "CalledProcessError" ->
         {<<"error", "LUKS formatting", BlockDevice, "returncode", o.op>>}
    [] o.op = "exists" /\ o.res = "yes" ->
         {<<"info", "Checking if exists", uuid>>,
          <<"info", "Skipping setup", uuid>>}
    [] o.op = "exists" /\ o.res = "no" ->
         {<<"info", "Checking if exists", uuid>>}
    [] OTHER -> {}

\* the log lines of the current attempt of p
Log(p) ==
  UNION {LogOf(args[p].cmd, ops[p][i], _get_vault_path(block_uuid[p]), block_uuid[p], key[p]) :
           i \in DOMAIN ops[p]}

Parts(t) == {t[i] : i \in DOMAIN t}

\* C15: no log line of an attempt, no exception that ends it and no exit
\* text contains the key material the attempt generated or fetched, nor
\* any key held by the store.
C15_KeyNeverInMessages ==
  \A p \in Procs : Running(p) =>
    LET secrets == Keys
    IN /\ \A l \in Log(p) : Parts(l) \cap secrets = {}
       /\ Parts(outcome[p].arg) \cap secrets = {}
       /\ Parts(ExitText(outcome[p])) \cap secrets = {}

\* C15 witness: a provisioning attempt that held a key failed at the
\* write and logged the failure
C15_Witness ==
  \E p \in Procs :
    /\ Encrypting(p)
    /\ key[p] \in Keys
    /\ pc[p] = "done"
    /\ outcome[p].cls = "VaultWriteError"
    /\ Log(p) # {}

DeviceOrder == <<"luks_format", "udevadm_rescan", "udevadm_settle", "luks_open">>

IsDeviceOp(o) == o.op \in DeviceOps

\* C16: the device calls of a provisioning attempt are, in this order,
\* luks_format, udevadm_rescan, udevadm_settle, luks_open, each made once
\* and only after the one before it returned without error: luks_open is
\* never called before udevadm_settle has returned, and a failed step is
\* the last device call of the attempt.
C16_ApplyStepsInOrder ==
  \A p \in Procs : Encrypting(p) =>
    LET d == SelectSeq(ops[p], IsDeviceOp)
    IN /\ Len(d) <= Len(DeviceOrder)
       /\ \A j \in DOMAIN d :
            /\ d[j].op = DeviceOrder[j]
            /\ j < Len(d) => d[j].res = "ok"

\* C16 witness: the settle failed after format and rescan, and the attempt
\* ended without an open
C16_Witness ==
  \E p \in Procs :
    /\ Encrypting(p)
    /\ AttemptOver(p)
    /\ \E i \in Calls(p, {"udevadm_settle"}) : ops[p][i].res = "CalledProcessError"
    /\ Calls(p, {"luks_format", "udevadm_rescan"}) # {}
    /\ Calls(p, {"luks_open"}) = {}

\* C17: within one encrypt invocation, whatever the retry budget,
\* luks_format is called at most once: after a failed format or open no
\* further attempt writes to the store or formats again.
C17_FormatAtMostOncePerInvocation ==
  \A p \in Procs :
    Encrypting(p) =>
      /\ nformat[p] <= 1
      /\ (nformat[p] = 1 /\ Calls(p, {"luks_format"}) = {}) =>
           Calls(p, {"write"}) = {}

\* C20: when the verifying read of a provisioning attempt fails with a
\* store error (an hvac VaultError) after a successful commit, the attempt
\* ends there with VaultReadError(vault_path): the read is its last call
\* (no device operation, no delete) and the path still holds a record.
C20_ReadFailureLeavesRecord ==
  \A p \in Procs : Encrypting(p) =>
    \A i \in Calls(p, {"read"}) :
      ops[p][i].res \in VaultErrors =>
        /\ AttemptOver(p)
        /\ ops[p] = <<Op("login", "ok"), Op("write", "ok"), ops[p][i]>>
        /\ outcome[p] = Exc("VaultReadError", <<_get_vault_path(block_uuid[p])>>)
        /\ store[_get_vault_path(block_uuid[p])] \in Keys

\* C20 witness: the commit succeeded, the read-back was refused, and the
\* committed key is still at the path when the invocation is over
C20_Witness ==
  \E p \in Procs :
    /\ Encrypting(p)
    /\ pc[p] = "done"
    /\ ops[p] = <<Op("login", "ok"), Op("write", "ok"), Op("read", "VaultError")>>
    /\ store[_get_vault_path(block_uuid[p])] = key[p]

\* C19: round trip.  Once an encrypt for identifier I has succeeded and
\* the record at I's path has kept its value since, a decrypt of I that
\* found the device unmapped reads, at _get_vault_path(I), the key that
\* luks_format was given, and every luks_open it calls or is about to call
\* is passed exactly that key.
C19_RoundTrip ==
  \A p \in Procs :
    (Decrypting(p) /\ ~entryMapped[p] /\ provisioned[args[p].uuid] \in Keys) =>
      LET K == provisioned[args[p].uuid] IN
      /\ store[_get_vault_path(args[p].uuid)] = K
      /\ \A i \in Calls(p, {"read"}) :
           ops[p][i].res \in Keys => (ops[p][i].res = K /\ key[p] = K)
      /\ (pc[p] = "mapopen" \/ Calls(p, {"luks_open"}) # {}) =>
           (key[p] = K /\ block_uuid[p] = args[p].uuid)

\* C19 witness: after a successful encrypt and a reboot, a decrypt of the
\* same identifier read the record and luks_open accepted the key
C19_Witness ==
  \E p \in Procs :
    /\ Decrypting(p)
    /\ ~entryMapped[p]
    /\ pc[p] = "done"
    /\ outcome[p] = Returned
    /\ provisioned[args[p].uuid] = key[p]
    /\ luks = <<args[p].uuid, key[p]>>
    /\ \E i \in Calls(p, {"luks_open"}) : ops[p][i].res = "ok"

\* ------------------------------------------- two concurrent provisionings

\* two vaultlocker processes run on the host at the same time
InitConc ==
  /\ store = [i \in Ids |-> NoKey]
  /\ luks = <<>>
  /\ mapped = {}
  /\ ninv = 0
  /\ active = Procs
  /\ args = [p \in Procs |-> NoArgs]
  /\ readyAt = [p \in Procs |-> 0]
  /\ pc = [p \in Procs |-> "idle"]
  /\ attempt = [p \in Procs |-> 0]
  /\ elapsed = [p \in Procs |-> 0]
  /\ key = [p \in Procs |-> NoKey]
  /\ block_uuid = [p \in Procs |-> NoUuid]
  /\ ops = [p \in Procs |-> <<>>]
  /\ outcome = [p \in Procs |-> NoOutcome]
  /\ nformat = [p \in Procs |-> 0]
  /\ entryMapped = [p \in Procs |-> FALSE]
  /\ provisioned = [i \in Ids |-> NoKey]

\* the command lines of the running processes: encrypt with the same
\* --uuid, --retry left at its default (line 294) and a backend that is ready
SameIdentifier ==
  \A p \in Procs : args[p] # NoArgs =>
    /\ args[p].cmd = "encrypt"
    /\ args[p].uuid \in Ids
    /\ args[p].retry = -1
    /\ readyAt[p] = 0
    /\ \A q \in Procs : args[q] # NoArgs => args[q].uuid = args[p].uuid

\* main, started with such a command line
InvokeSameIdentifier(p) == Invoke(p) /\ SameIdentifier'

NextConc ==
  \/ \E p \in Procs : InvokeSameIdentifier(p)
  \/ \E p \in Procs : VaultClient(p)
  \/ \E p \in Procs : Exit(p)
  \/ \E p \in Procs : StoreWrite(p)
  \/ \E p \in Procs : ReadAndVerify(p)
  \/ \E p \in Procs : LuksFormat(p)
  \/ \E p \in Procs : UdevadmRescan(p)
  \/ \E p \in Procs : UdevadmSettle(p)
  \/ \E p \in Procs : LuksOpen(p)
  \/ \E p \in Procs : RollbackDelete(p)

SpecConc == InitConc /\ [][NextConc]_vars

\* C18: under every interleaving of two encrypt invocations that use the
\* same caller-supplied identifier, an invocation that ended in success
\* (luks_format and luks_open returned for its key) finds the key its
\* device was formatted with in the store at the identifier's path: no write
\* and no rollback delete of the other invocation replaced or removed it.
C18_SuccessKeepsKeyInStore ==
  \A p \in Procs :
    (Encrypting(p) /\ pc[p] = "done" /\ outcome[p] = Returned) =>
      /\ luks = <<block_uuid[p], key[p]>>
      /\ store[_get_vault_path(block_uuid[p])] = key[p]

====
